---- MODULE Spec2Model ----
(***************************************************************************)
(* Warning workflow of the MentorLed platform                              *)
(* (backend/app/api/warnings.py over the warnings and fellows tables).     *)
(*                                                                         *)
(* The database holds the committed rows.  A request handler works on a    *)
(* session-local copy of the rows it selected and the database changes     *)
(* only at `await db.commit()`.  A handler that raises HTTPException       *)
(* before its commit leaves the database as it was: the session is         *)
(* discarded with its pending changes.                                     *)
(*                                                                         *)
(* The issue handler is modelled step by step, one step per await that     *)
(* touches the database, so that two issue calls can interleave.  The      *)
(* store is PostgreSQL (config.py, DATABASE_URL) at its default isolation  *)
(* level, READ COMMITTED, and the session autoflushes: the changed warning *)
(* is written, and its row locked, before the fellow is selected.  Each    *)
(* call of datetime.utcnow() returns a later reading than the one before.  *)
(*                                                                         *)
(* Risk assessment (backend/app/services/risk_service.py behind            *)
(* backend/app/api/risk.py).  Numbers are fixed-point integers: a signal   *)
(* is counted in units of 1/2400 (SignalOne), which holds every average of *)
(* up to four two-decimal values exactly, and a score in units of 1/10000  *)
(* (ScoreOne).  The arithmetic is exact where Python computes in binary    *)
(* floating point: before round(score, 2) the two differ by far less than  *)
(* a hundredth, so the rounded scores can differ only when the exact score *)
(* lies halfway between two hundredths, which the model rounds to the even *)
(* one.                                                                    *)
(*                                                                         *)
(* The assess handler is modelled twice: as one step, for calls that run   *)
(* one after the other, and await by await, for calls that run side by     *)
(* side.  Its INSERT and the UPDATE of the fellow are flushed inside the   *)
(* one commit; a unique constraint that refuses the INSERT rolls the       *)
(* whole transaction back.  The same holds for the signup handler          *)
(* (backend/app/api/auth.py) and the unique index on users.email.          *)
(***************************************************************************)
EXTENDS Integers, Sequences, FiniteSets, TLC

\* ---------------------------------------------------------------- bounds
MaxWarnings == 2        \* rows the warnings table may hold
MaxTime == 3            \* readings of datetime.utcnow()
MaxWeek == 4            \* program weeks a check-in or an assessment may name

\* ---------------------------------------------------------------- values
Procs == {"p1", "p2"}   \* request handlers that may be in flight
MainProc == "p1"        \* the client of the sequential specification

Fellows == {"f1", "f2"} \* rows of the fellows table
FellowIds == Fellows \cup {"f0"}   \* "f0" is the id of no fellow

None == <<>>            \* Optional[T]: None, or Some(x)
Some(x) == <<x>>

AdminUser == "admin"    \* current_user.id of the authorised caller

Levels == {"first", "final"}
DraftInputs == {None, Some("draft")}   \* WarningCreate.draft_message
FinalInputs == {"", "override"}                  \* WarningUpdate.final_message

\* Python truth value of an Optional[str]: None and "" are false.
Truthy(m) == m # None /\ m # Some("")

VARIABLES
    warnings,        \* the warnings table: sequence of rows, id = index
    warnings_count,  \* Fellow.warnings_count, per fellow
    now,             \* the last value datetime.utcnow() returned
    pc,              \* per handler: where it stands
    sess,            \* per handler: rows held in its session, not committed
    result,          \* per handler: its last response
    check_ins,       \* the check_ins table: per fellow and week, a row or None
    milestones,      \* Fellow.milestone_1_score .. milestone_3_score, per fellow
    risk_assessments,    \* the risk_assessments table: sequence of rows
    current_risk_score,  \* Fellow.current_risk_score, per fellow
    users,           \* the users table: sequence of rows
    signals,         \* the signals dict handed to the scoring functions
    risk_score,      \* the score _calculate_risk_score returned, or None
    risk_level,      \* the level _determine_risk_level returned, or None
    assessment       \* the dict assess_fellow_risk returned last, or None

\* The state the risk assessment works on, apart from warnings_count.
dbRiskVars == <<check_ins, milestones, risk_assessments, current_risk_score>>
riskVars == <<check_ins, milestones, risk_assessments, current_risk_score,
              signals, risk_score, risk_level, assessment>>

vars == <<warnings, warnings_count, now, pc, sess, result, check_ins,
          milestones, risk_assessments, current_risk_score, users, signals,
          risk_score, risk_level, assessment>>

WarningIds == 1..MaxWarnings
Weeks == 1..MaxWeek
Exists(w) == w \in DOMAIN warnings

NoSession == [wid |-> 0, fellow_count |-> None, row |-> None, dirty |-> {}]
NoResult == [op |-> "none", wid |-> 0, status |-> 0, detail |-> ""]

\* A response: the row's id when the call succeeded (the handlers return
\* the row), the HTTPException's status and detail when it failed.
Response(op, w, status, detail) ==
    [op |-> op, wid |-> IF status = 200 THEN w ELSE 0,
     status |-> status, detail |-> detail]

\* Mutant: the requested level is not passed to the row.
NewWarning_LevelDropped(f, lvl, dm) ==
    [fellow_id |-> f, level |-> "first", draft_message |-> dm,
     final_message |-> None, issued_at |-> None, issued_by |-> None,
     acknowledged |-> FALSE, acknowledged_at |-> None]

\* Warning(...) as create_warning builds it; the columns it does not set
\* take their defaults (NULL, acknowledged = False).
NewWarning(f, lvl, dm) ==
    [fellow_id |-> f, level |-> lvl, draft_message |-> dm,
     final_message |-> None, issued_at |-> None, issued_by |-> None,
     acknowledged |-> FALSE, acknowledged_at |-> None]

\* No warning and no user yet, no handler in flight.
InitWarnings ==
    /\ warnings = <<>>
    /\ users = <<>>
    /\ warnings_count = [f \in Fellows |-> 0]
    /\ now = 0
    /\ pc = [p \in Procs |-> "idle"]
    /\ sess = [p \in Procs |-> NoSession]
    /\ result = [p \in Procs |-> NoResult]

\* No check-in, no milestone score and no assessment yet.
InitRisk ==
    /\ check_ins = [f \in Fellows |-> [w \in Weeks |-> None]]
    /\ milestones = [f \in Fellows |-> <<None, None, None>>]
    /\ risk_assessments = <<>>
    /\ current_risk_score = [f \in Fellows |-> None]
    /\ signals = None
    /\ risk_score = None
    /\ risk_level = None
    /\ assessment = None

Init == InitWarnings /\ InitRisk

\* ------------------------------------------------------- POST /warnings/
CreateWarning(p, f, lvl, dm) ==
    /\ pc[p] = "idle"
    /\ IF f \notin Fellows
       THEN /\ result' = [result EXCEPT ![p] =
                            Response("create", 0, 404, "Fellow not found")]
            /\ UNCHANGED warnings
       ELSE /\ Len(warnings) < MaxWarnings
            /\ warnings' = Append(warnings, NewWarning(f, lvl, dm))
            /\ result' = [result EXCEPT ![p] =
                            Response("create", Len(warnings) + 1, 200, "")]
    /\ UNCHANGED <<warnings_count, now, pc, sess>>
    /\ UNCHANGED riskVars
    /\ UNCHANGED users

\* ------------------------------------------- PUT /warnings/{warning_id}
\* Mutant: update without its issued_at check.
UpdateLocked_Unchecked(row) == FALSE

\* `if warning.issued_at:` of update_warning.
UpdateLocked(row) == row.issued_at # None

UpdateWarning(p, w, fm) ==
    /\ pc[p] = "idle"
    /\ IF ~Exists(w)
       THEN /\ result' = [result EXCEPT ![p] =
                            Response("update", w, 404, "Warning not found")]
            /\ UNCHANGED warnings
       ELSE IF UpdateLocked(warnings[w])
       THEN /\ result' = [result EXCEPT ![p] =
                Response("update", w, 400, "Cannot update already issued warning")]
            /\ UNCHANGED warnings
       ELSE /\ warnings' = [warnings EXCEPT ![w].final_message = Some(fm)]
            /\ result' = [result EXCEPT ![p] = Response("update", w, 200, "")]
    /\ UNCHANGED <<warnings_count, now, pc, sess>>
    /\ UNCHANGED riskVars
    /\ UNCHANGED users

\* ------------------------------------ POST /warnings/{warning_id}/issue
\* Mutant: the handler without its issued_at check.
AlreadyIssued_Unchecked(row) == FALSE

\* `if warning.issued_at:` of issue_warning.
AlreadyIssued(row) == row.issued_at # None

\* Mutant: the message check compares with "" and misses None.
NoMessage_EmptyStringOnly(row) ==
    row.final_message = Some("") /\ row.draft_message = Some("")

\* `if not warning.final_message and not warning.draft_message:`
NoMessage(row) == ~Truthy(row.final_message) /\ ~Truthy(row.draft_message)

\* Mutant: no fallback to the draft message.
MessageToSend_NoFallback(row) == row.final_message

\* The message the issued row carries: final_message if set, otherwise
\* draft_message.
MessageToSend(row) ==
    IF ~Truthy(row.final_message) THEN row.draft_message ELSE row.final_message

\* The session's copy of the row after "Mark as issued" and the message
\* choice, with the columns the handler assigned.
MarkIssued(row, t) ==
    [row |-> [row EXCEPT !.issued_at = Some(t),
                         !.issued_by = Some(AdminUser),
                         !.final_message = MessageToSend(row)],
     dirty |-> {"issued_at", "issued_by"} \cup
               (IF ~Truthy(row.final_message) THEN {"final_message"} ELSE {})]

\* Select the warning, check it, and change the session's copy of it; the
\* handler then waits on the select of the fellow.
IssueWarning_Select(p, w) ==
    /\ pc[p] = "idle"
    /\ IF ~Exists(w)
       THEN /\ result' = [result EXCEPT ![p] =
                            Response("issue", w, 404, "Warning not found")]
            /\ UNCHANGED <<now, pc, sess>>
       ELSE IF AlreadyIssued(warnings[w])
       THEN /\ result' = [result EXCEPT ![p] =
                            Response("issue", w, 400, "Warning already issued")]
            /\ UNCHANGED <<now, pc, sess>>
       ELSE /\ now < MaxTime
            /\ now' = now + 1
            /\ IF NoMessage(warnings[w])
               THEN /\ result' = [result EXCEPT ![p] =
                                    Response("issue", w, 400, "No message to send")]
                    /\ UNCHANGED <<pc, sess>>
               ELSE /\ sess' = [sess EXCEPT ![p] =
                                  [wid |-> w, fellow_count |-> None]
                                  @@ MarkIssued(warnings[w], now + 1)]
                    /\ pc' = [pc EXCEPT ![p] = "issue_fellow"]
                    /\ UNCHANGED result
    /\ UNCHANGED <<warnings, warnings_count>>
    /\ UNCHANGED riskVars
    /\ UNCHANGED users

\* The row lock the autoflushed UPDATE of a warning takes: held by a
\* handler from its flush to its commit.
RowLocked(p, w) ==
    \E q \in Procs \ {p} : pc[q] = "issue_commit" /\ sess[q].wid = w

\* Mutant: the count written back as it was read.
IncrementedCount_Same(c) == c

\* `fellow.warnings_count += 1` on the count the select returned.
IncrementedCount(c) == c + 1

\* Select the fellow (the session flushes the changed warning first) and
\* add one to the count that was read.
IssueWarning_Fellow(p) ==
    /\ pc[p] = "issue_fellow"
    /\ ~RowLocked(p, sess[p].wid)
    /\ sess' = [sess EXCEPT ![p].fellow_count =
                  Some(IncrementedCount(warnings_count[sess[p].row.fellow_id]))]
    /\ pc' = [pc EXCEPT ![p] = "issue_commit"]
    /\ UNCHANGED <<warnings, warnings_count, now, result>>
    /\ UNCHANGED riskVars
    /\ UNCHANGED users

\* The row as the UPDATE leaves it: the columns the session changed take
\* the session's values, the others keep the stored ones.
Flushed(stored, s) ==
    [c \in DOMAIN stored |-> IF c \in s.dirty THEN s.row[c] ELSE stored[c]]

\* await db.commit(): the warning and the fellow's count become visible.
IssueWarning_Commit(p) ==
    /\ pc[p] = "issue_commit"
    /\ LET w == sess[p].wid
           f == sess[p].row.fellow_id
       IN /\ warnings' = [warnings EXCEPT ![w] = Flushed(warnings[w], sess[p])]
          /\ warnings_count' = [warnings_count EXCEPT ![f] = sess[p].fellow_count[1]]
          /\ result' = [result EXCEPT ![p] = Response("issue", w, 200, "")]
    /\ pc' = [pc EXCEPT ![p] = "idle"]
    /\ sess' = [sess EXCEPT ![p] = NoSession]
    /\ UNCHANGED now
    /\ UNCHANGED riskVars
    /\ UNCHANGED users

\* ------------------------------ POST /warnings/{warning_id}/acknowledge
\* Mutant: acknowledge without its issued_at check.
NotYetIssued_Unchecked(row) == FALSE

\* `if not warning.issued_at:` of acknowledge_warning.
NotYetIssued(row) == row.issued_at = None

\* Mutant: the flag set without its timestamp.
Acknowledged_NoTimestamp(row, t) == [row EXCEPT !.acknowledged = TRUE]

\* The row after `acknowledged = True` and `acknowledged_at = utcnow()`.
Acknowledged(row, t) ==
    [row EXCEPT !.acknowledged = TRUE, !.acknowledged_at = Some(t)]

AcknowledgeWarning(p, w) ==
    /\ pc[p] = "idle"
    /\ IF ~Exists(w)
       THEN /\ result' = [result EXCEPT ![p] =
                            Response("acknowledge", w, 404, "Warning not found")]
            /\ UNCHANGED <<warnings, now>>
       ELSE IF NotYetIssued(warnings[w])
       THEN /\ result' = [result EXCEPT ![p] =
                            Response("acknowledge", w, 400, "Warning not yet issued")]
            /\ UNCHANGED <<warnings, now>>
       ELSE /\ now < MaxTime
            /\ now' = now + 1
            /\ warnings' = [warnings EXCEPT ![w] = Acknowledged(@, now + 1)]
            /\ result' = [result EXCEPT ![p] =
                            Response("acknowledge", w, 200, "Warning acknowledged")]
    /\ UNCHANGED <<warnings_count, pc, sess>>
    /\ UNCHANGED riskVars
    /\ UNCHANGED users

\* -------------------------------------------------- POST /warnings/draft
MinMessageLen == 200    \* shortest message _parse_and_validate_response takes

\* What the call of the text-generation service comes to: it raises (API
\* error, timeout), or it returns a text that holds a JSON object or not,
\* with all the required fields or not, and a message of some length.
LLMReplies ==
    {[raised |-> TRUE, json |-> FALSE, complete |-> FALSE, message_len |-> 0],
     [raised |-> FALSE, json |-> FALSE, complete |-> FALSE, message_len |-> 0],
     [raised |-> FALSE, json |-> TRUE, complete |-> FALSE,
      message_len |-> MinMessageLen],
     [raised |-> FALSE, json |-> TRUE, complete |-> TRUE,
      message_len |-> MinMessageLen - 1],
     [raised |-> FALSE, json |-> TRUE, complete |-> TRUE,
      message_len |-> MinMessageLen]}

\* Mutant: the validation without its length check.
ResponseValid_AnyLength(reply) == reply.json /\ reply.complete

\* _parse_and_validate_response returns the parsed object: the text holds
\* JSON, no required field is missing, the message is not too short.
ResponseValid(reply) ==
    reply.json /\ reply.complete /\ ~(reply.message_len < MinMessageLen)

\* The try block of WarningDrafter.draft_warning returns a draft; in every
\* other case it raises Exception("Warning drafting failed: ...").
DraftReturned(reply) == ~reply.raised /\ ResponseValid(reply)

\* The handler only reads the database; the exception of the drafter is not
\* caught and ends the request.  A draft is returned with drafted_at, a
\* reading of the clock, and is not stored.
DraftWarning(p, f, lvl, reply) ==
    /\ pc[p] = "idle"
    /\ IF f \notin Fellows
       THEN /\ result' = [result EXCEPT ![p] =
                            Response("draft", 0, 404, "Fellow not found")]
            /\ UNCHANGED now
       ELSE IF ~DraftReturned(reply)
       THEN /\ result' = [result EXCEPT ![p] =
                            Response("draft", 0, 500, "Warning drafting failed")]
            /\ UNCHANGED now
       ELSE /\ now < MaxTime
            /\ now' = now + 1
            /\ result' = [result EXCEPT ![p] = Response("draft", 0, 200, "")]
    /\ UNCHANGED <<warnings, warnings_count, pc, sess>>
    /\ UNCHANGED riskVars
    /\ UNCHANGED users

\* ------------------------------------------------ services/risk_service.py
SignalOne == 100 * 24     \* the signal value 1.0
ScoreOne == 100 * 100     \* the score 1.0
Hundredth == SignalOne \div 100   \* 0.01 as a signal: a Numeric(3,2) step

RECURSIVE SumSeq(_)
SumSeq(q) == IF q = <<>> THEN 0 ELSE Head(q) + SumSeq(Tail(q))

Min(a, b) == IF a < b THEN a ELSE b

\* The values of a column over the rows that have one (`is not None`).
Present(rows, column) ==
    LET having == SelectSeq(rows, LAMBDA r : r[column] # None)
    IN [i \in 1..Len(having) |-> having[i][column][1]]

\* The values of a string column over the rows where it is true in Python.
PresentText(rows, column) ==
    LET having == SelectSeq(rows, LAMBDA r : Truthy(r[column]))
    IN [i \in 1..Len(having) |-> having[i][column][1]]

\* sum(values) / len(values), one unit of a value being `scale` signal units.
Average(values, scale) == (SumSeq(values) * scale) \div Len(values)

\* The share of the values that equal `word`.
Rate(values, word) ==
    (Len(SelectSeq(values, LAMBDA v : v = word)) * SignalOne) \div Len(values)

\* The stored check-ins of fellow f with lo <= week <= w, latest first.
RECURSIVE CheckInsFrom(_, _, _)
CheckInsFrom(f, w, lo) ==
    IF w < lo THEN <<>>
    ELSE (IF w \in Weeks /\ check_ins[f][w] # None
          THEN <<check_ins[f][w][1]>> ELSE <<>>)
         \o CheckInsFrom(f, w - 1, lo)

\* CheckIn.week >= current_week - lookback and CheckIn.week <= current_week,
\* ordered by week, descending.
GetRecentCheckIns(f, current_week, lookback) ==
    CheckInsFrom(f, current_week, current_week - lookback)

\* Mutant: the assessments of the week, whose ever they are.
ScoresOfWeek_AnyFellow(f, w) ==
    LET rows == SelectSeq(risk_assessments, LAMBDA r : r.week = w)
    IN [i \in 1..Len(rows) |-> rows[i].risk_score]

\* The risk scores of the stored assessments of fellow f for week w.
ScoresOfWeek(f, w) ==
    LET rows == SelectSeq(risk_assessments,
                          LAMBDA r : r.fellow_id = f /\ r.week = w)
    IN [i \in 1..Len(rows) |-> rows[i].risk_score]

\* The scores of fellow f over the weeks from w down to lo.
RECURSIVE ScoresFrom(_, _, _)
ScoresFrom(f, w, lo) ==
    IF w < lo THEN <<>> ELSE ScoresOfWeek(f, w) \o ScoresFrom(f, w - 1, lo)

\* Mutant: the assessment of the current week is read as well.
GetRecentRiskAssessments_OwnWeek(f, current_week, lookback) ==
    ScoresFrom(f, current_week, current_week - lookback)

\* RiskAssessment.week >= current_week - lookback and RiskAssessment.week <
\* current_week, ordered by week, descending; their risk scores.
GetRecentRiskAssessments(f, current_week, lookback) ==
    ScoresFrom(f, current_week - 1, current_week - lookback)

\* Mutant: any rise of the latest score over the mean counts.
IsRiskIncreasing_AnyRise(trend) ==
    IF Len(trend) < 2 THEN FALSE
    ELSE Head(trend) * Len(Tail(trend)) > SumSeq(Tail(trend))

\* latest > previous_avg * 1.1, latest = trend[0] and previous_avg the mean
\* of trend[1:].
IsRiskIncreasing(trend) ==
    IF Len(trend) < 2 THEN FALSE
    ELSE Head(trend) * Len(Tail(trend)) * 10 > SumSeq(Tail(trend)) * 11

\* The milestone scores of fellow f that are set.
MilestoneScores(f) ==
    LET having == SelectSeq(milestones[f], LAMBDA m : m # None)
    IN [i \in 1..Len(having) |-> having[i][1]]

\* The signals dict of a fellow and a week.
GatherRiskSignals(f, week) ==
    LET recent_check_ins == GetRecentCheckIns(f, week, 3)
        sentiments == Present(recent_check_ins, "sentiment_score")
        risk_contributions == Present(recent_check_ins, "risk_contribution")
        energy_levels == Present(recent_check_ins, "energy_level")
        collab_ratings == PresentText(recent_check_ins, "collaboration_rating")
        self_assessments == PresentText(recent_check_ins, "self_assessment")
        milestone_scores == MilestoneScores(f)
        prev_risk_trend == GetRecentRiskAssessments(f, week, 2)
    IN [check_in_frequency |-> (Len(recent_check_ins) * SignalOne) \div 3,
        avg_sentiment |->
            IF sentiments # <<>>
            THEN Some(Average(sentiments, Hundredth)) ELSE None,
        avg_check_in_risk |->
            IF risk_contributions # <<>>
            THEN Some(Average(risk_contributions, Hundredth)) ELSE None,
        avg_energy |->
            IF energy_levels # <<>>
            THEN Some(Average(energy_levels, SignalOne)) ELSE None,
        collaboration_issues |->
            IF collab_ratings # <<>>
            THEN Rate(collab_ratings, "struggling") ELSE 0,
        below_expectations_rate |->
            IF self_assessments # <<>>
            THEN Rate(self_assessments, "below") ELSE 0,
        milestone_avg |->
            IF milestone_scores # <<>>
            THEN Some(Average(milestone_scores, Hundredth)) ELSE None,
        milestone_count |-> Len(milestone_scores),
        warnings_count |-> warnings_count[f],
        prev_risk_trend |-> prev_risk_trend,
        risk_increasing |->
            IF prev_risk_trend # <<>>
            THEN IsRiskIncreasing(prev_risk_trend) ELSE FALSE]

\* A signal threshold the code writes as a decimal: h hundredths.
Decimal(h) == h * Hundredth

\* The terms of the weighted sum: the risk of a signal, in signal units,
\* times its weight in hundredths.
FrequencyTerm(freq) ==
    IF freq < Decimal(33) THEN ((8 * SignalOne) \div 10) * 15
    ELSE IF freq < Decimal(67) THEN ((4 * SignalOne) \div 10) * 15
    ELSE 0

\* Mutant: the check-in risk counted as safety.
CheckInRiskTerm_Inverted(v) == (SignalOne - v) * 25

CheckInRiskTerm(v) == v * 25

\* Mutant: the sentiment counted without its inversion.
SentimentTerm_NotInverted(v) == ((v + SignalOne) \div 2) * 15

\* (1.0 - (avg_sentiment + 1.0) / 2.0) * 0.15
SentimentTerm(v) == (SignalOne - (v + SignalOne) \div 2) * 15

\* Mutant: the energy counted without its inversion.
EnergyTerm_NotInverted(v) == (v \div 10) * 10

\* (1.0 - avg_energy / 10.0) * 0.10
EnergyTerm(v) == (SignalOne - v \div 10) * 10

MilestoneTerm(v) == (SignalOne - v \div 4) * 20

WarningsTerm(count) == Min((count * SignalOne) \div 3, SignalOne) * 5

\* Mutant: the amplified score without its cap.
Amplified_Uncapped(score) == <<score[1] * 12, score[2] * 10>>

\* min(score * 1.2, 1.0) on the fraction score[1] / score[2].
Amplified(score) == <<Min(score[1] * 12, score[2] * 10), score[2] * 10>>

\* The integer nearest to n / d, the even one of the two at a tie.
RoundHalfEven(n, d) ==
    LET q == n \div d
        r == n - q * d
    IN IF 2 * r < d THEN q
       ELSE IF 2 * r > d THEN q + 1
       ELSE IF q % 2 = 0 THEN q ELSE q + 1

\* round(score, 2) of the fraction score[1] / score[2], as a score.
Round2(score) == RoundHalfEven(100 * score[1], score[2]) * (ScoreOne \div 100)

\* Mutant: every weight counted, the signal present or not.
WeightTotal_AllWeights(s) == 15 + 25 + 15 + 10 + 20 + 5 + 5 + 5

\* The weights of the signals that are applied, in hundredths.
WeightTotal(s) ==
    15 + (IF s.avg_check_in_risk # None THEN 25 ELSE 0)
       + (IF s.avg_sentiment # None THEN 15 ELSE 0)
       + (IF s.avg_energy # None THEN 10 ELSE 0)
       + (IF s.milestone_avg # None THEN 20 ELSE 0)
       + 5 + 5 + 5

\* _calculate_risk_score: the weighted sum over the signals that are
\* present, divided by the weight applied, amplified when the risk is
\* increasing, rounded to two decimals.
CalculateRiskScore(s) ==
    LET score ==
            FrequencyTerm(s.check_in_frequency)
            + (IF s.avg_check_in_risk # None
               THEN CheckInRiskTerm(s.avg_check_in_risk[1]) ELSE 0)
            + (IF s.avg_sentiment # None
               THEN SentimentTerm(s.avg_sentiment[1]) ELSE 0)
            + (IF s.avg_energy # None THEN EnergyTerm(s.avg_energy[1]) ELSE 0)
            + (IF s.milestone_avg # None
               THEN MilestoneTerm(s.milestone_avg[1]) ELSE 0)
            + s.collaboration_issues * 5
            + s.below_expectations_rate * 5
            + WarningsTerm(s.warnings_count)
        weight_total == WeightTotal(s)
        normalized ==
            IF weight_total > 0 THEN <<score, weight_total * SignalOne>>
            ELSE <<score, 100 * SignalOne>>
    IN Round2(IF s.risk_increasing THEN Amplified(normalized) ELSE normalized)

\* Mutant: the lowest bucket closed at its upper end.
DetermineRiskLevel_UpperClosed(score) ==
    IF score <= 25 * (ScoreOne \div 100) THEN "on_track"
    ELSE IF score < 50 * (ScoreOne \div 100) THEN "monitor"
    ELSE IF score < 75 * (ScoreOne \div 100) THEN "at_risk"
    ELSE "critical"

DetermineRiskLevel(score) ==
    IF score < 25 * (ScoreOne \div 100) THEN "on_track"
    ELSE IF score < 50 * (ScoreOne \div 100) THEN "monitor"
    ELSE IF score < 75 * (ScoreOne \div 100) THEN "at_risk"
    ELSE "critical"

\* Mutant: the thresholds of energy and collaboration taken as triggering.
IdentifyConcerns_ClosedThresholds(s) ==
    (IF s.check_in_frequency < Decimal(67) THEN {"check_in_compliance"} ELSE {})
    \cup (IF s.avg_sentiment # None /\ s.avg_sentiment[1] < - Decimal(30)
          THEN {"low_morale"} ELSE {})
    \cup (IF s.avg_energy # None /\ s.avg_energy[1] <= 4 * SignalOne
          THEN {"low_energy"} ELSE {})
    \cup (IF s.collaboration_issues >= Decimal(30) THEN {"collaboration"} ELSE {})
    \cup (IF s.milestone_avg # None /\ s.milestone_avg[1] < Decimal(250)
          THEN {"performance"} ELSE {})
    \cup (IF s.warnings_count > 0 THEN {"warnings"} ELSE {})
    \cup (IF s.risk_increasing THEN {"trend"} ELSE {})

\* The keys of the concerns dict.
IdentifyConcerns(s) ==
    (IF s.check_in_frequency < Decimal(67) THEN {"check_in_compliance"} ELSE {})
    \cup (IF s.avg_sentiment # None /\ s.avg_sentiment[1] < - Decimal(30)
          THEN {"low_morale"} ELSE {})
    \cup (IF s.avg_energy # None /\ s.avg_energy[1] < 4 * SignalOne
          THEN {"low_energy"} ELSE {})
    \cup (IF s.collaboration_issues > Decimal(30) THEN {"collaboration"} ELSE {})
    \cup (IF s.milestone_avg # None /\ s.milestone_avg[1] < Decimal(250)
          THEN {"performance"} ELSE {})
    \cup (IF s.warnings_count > 0 THEN {"warnings"} ELSE {})
    \cup (IF s.risk_increasing THEN {"trend"} ELSE {})

\* Mutant: a final warning recommended only from the second warning on.
RecommendAction_FromSecond(level, concerns, s) ==
    IF level = "critical" THEN "immediate_intervention"
    ELSE IF level = "at_risk"
    THEN (IF s.warnings_count > 1 THEN "final_warning" ELSE "issue_warning")
    ELSE IF level = "monitor" THEN "schedule_1_on_1"
    ELSE "continue_monitoring"

RecommendAction(level, concerns, s) ==
    IF level = "critical" THEN "immediate_intervention"
    ELSE IF level = "at_risk"
    THEN (IF s.warnings_count >= 1 THEN "final_warning" ELSE "issue_warning")
    ELSE IF level = "monitor" THEN "schedule_1_on_1"
    ELSE "continue_monitoring"

\* The dict assess_fellow_risk returns for a signals dict.
Assessed(s) ==
    LET score == CalculateRiskScore(s)
        level == DetermineRiskLevel(score)
        concerns == IdentifyConcerns(s)
    IN [risk_score |-> score, risk_level |-> level, signals |-> s,
        concerns |-> concerns,
        recommended_action |-> RecommendAction(level, concerns, s)]

\* RiskDetectionService.assess_fellow_risk for a fellow that exists.
AssessFellowRisk(f, week) == Assessed(GatherRiskSignals(f, week))

\* The scoring functions taken alone, on a signals dict or a score given
\* from outside: assess_fellow_risk calls them one after the other.
CalculateStep ==
    /\ signals # None
    /\ risk_score = None
    /\ risk_score' = Some(CalculateRiskScore(signals[1]))
    /\ UNCHANGED <<users, warnings, warnings_count, now, pc, sess, result>>
    /\ UNCHANGED <<dbRiskVars, signals, risk_level, assessment>>

DetermineStep ==
    /\ risk_score # None
    /\ risk_level = None
    /\ risk_level' = Some(DetermineRiskLevel(risk_score[1]))
    /\ UNCHANGED <<users, warnings, warnings_count, now, pc, sess, result>>
    /\ UNCHANGED <<dbRiskVars, signals, risk_score, assessment>>

ConcludeStep ==
    /\ signals # None
    /\ risk_level # None
    /\ assessment = None
    /\ LET concerns == IdentifyConcerns(signals[1])
       IN assessment' =
              Some([risk_score |-> risk_score[1],
                    risk_level |-> risk_level[1],
                    signals |-> signals[1],
                    concerns |-> concerns,
                    recommended_action |->
                        RecommendAction(risk_level[1], concerns, signals[1])])
    /\ UNCHANGED <<users, warnings, warnings_count, now, pc, sess, result>>
    /\ UNCHANGED <<dbRiskVars, signals, risk_score, risk_level>>

\* Values of avg_check_in_risk: 0.0, 0.50, 0.51 and 1.0.
CheckInRisks == {0, Decimal(50), Decimal(51), SignalOne}

\* Signals dicts the scoring functions are studied on.  The check-in
\* frequency is that of 0, 2, 3 or 4 check-ins read; an average energy of 20
\* lies outside the scale of 1 to 10; a trend is absent or increasing.
SignalSets ==
    {[check_in_frequency |-> (g.check_ins * SignalOne) \div 3,
      avg_sentiment |-> g.avg_sentiment,
      avg_check_in_risk |-> g.avg_check_in_risk,
      avg_energy |-> g.avg_energy,
      collaboration_issues |-> g.collaboration_issues,
      below_expectations_rate |-> g.below_expectations_rate,
      milestone_avg |-> g.milestone_avg,
      milestone_count |-> IF g.milestone_avg = None THEN 0 ELSE 3,
      warnings_count |-> g.warnings_count,
      prev_risk_trend |-> g.prev_risk_trend,
      risk_increasing |->
          IF g.prev_risk_trend # <<>>
          THEN IsRiskIncreasing(g.prev_risk_trend) ELSE FALSE] :
     g \in [check_ins : {0, 2, 3, 4},
            avg_sentiment : {None, Some(- SignalOne), Some(SignalOne)},
            avg_check_in_risk : {None} \cup {Some(v) : v \in CheckInRisks},
            avg_energy : {None, Some(SignalOne), Some(10 * SignalOne),
                          Some(20 * SignalOne)},
            collaboration_issues : {0, SignalOne},
            below_expectations_rate : {0, SignalOne},
            milestone_avg : {None, Some(0), Some(4 * SignalOne)},
            warnings_count : {0, 1, 4},
            prev_risk_trend : {<<>>, <<ScoreOne \div 2, ScoreOne \div 4>>}]}

\* Lists of previous risk scores, latest first: none, one, three of which
\* the latest is the highest, and two of which the latest is exactly 1.1
\* times the other.
Trends ==
    {<<>>,
     <<ScoreOne \div 2>>,
     <<ScoreOne \div 2, 30 * (ScoreOne \div 100), 30 * (ScoreOne \div 100)>>,
     <<33 * (ScoreOne \div 100), 30 * (ScoreOne \div 100)>>}

\* The signals dict _gather_risk_signals builds from the values it computed.
SignalsOf(g) ==
    [check_in_frequency |-> g.check_in_frequency,
     avg_sentiment |-> g.avg_sentiment,
     avg_check_in_risk |-> g.avg_check_in_risk,
     avg_energy |-> g.avg_energy,
     collaboration_issues |-> g.collaboration_issues,
     below_expectations_rate |-> g.below_expectations_rate,
     milestone_avg |-> g.milestone_avg,
     milestone_count |-> IF g.milestone_avg = None THEN 0 ELSE 3,
     warnings_count |-> g.warnings_count,
     prev_risk_trend |-> g.prev_risk_trend,
     risk_increasing |->
         IF g.prev_risk_trend # <<>>
         THEN IsRiskIncreasing(g.prev_risk_trend) ELSE FALSE]

\* A fellow in trouble: check-in rate 0.33, check-in risk 0.6, sentiment
\* -0.4, energy 3, milestone average 2.0, collaboration issues 0.4, below
\* expectations 0.2, one warning, no previous assessment.
TroubledSignals ==
    SignalsOf([check_in_frequency |-> Decimal(33),
               avg_sentiment |-> Some(- Decimal(40)),
               avg_check_in_risk |-> Some(Decimal(60)),
               avg_energy |-> Some(3 * SignalOne),
               collaboration_issues |-> Decimal(40),
               below_expectations_rate |-> Decimal(20),
               milestone_avg |-> Some(Decimal(200)),
               warnings_count |-> 1,
               prev_risk_trend |-> <<>>])

\* Signals dicts around the thresholds of the scoring functions, the
\* troubled fellow's among them, and the worst signals there can be.
ThresholdSignalSets ==
    {SignalsOf(g) :
       g \in [check_in_frequency : {Decimal(33), Decimal(67), SignalOne},
              avg_sentiment : {None, Some(- Decimal(40)), Some(- Decimal(30))},
              avg_check_in_risk : {None, Some(Decimal(60))},
              avg_energy : {None, Some(3 * SignalOne), Some(4 * SignalOne)},
              collaboration_issues : {Decimal(10), Decimal(30), Decimal(40)},
              below_expectations_rate : {Decimal(20)},
              milestone_avg : {None, Some(Decimal(200)), Some(Decimal(250))},
              warnings_count : {0, 1},
              prev_risk_trend : Trends]
          \cup
            [check_in_frequency : {0},
             avg_sentiment : {Some(- SignalOne)},
             avg_check_in_risk : {Some(SignalOne)},
             avg_energy : {Some(SignalOne)},
             collaboration_issues : {SignalOne},
             below_expectations_rate : {SignalOne},
             milestone_avg : {Some(0)},
             warnings_count : {3},
             prev_risk_trend : Trends]}

\* ------------------------------------------------------ POST /check-ins/
\* CheckInCreate bodies: that of a fellow who struggles.
CheckInInputs ==
    {[energy_level |-> Some(1), collaboration_rating |-> Some("struggling"),
      self_assessment |-> Some("below")]}

\* CheckIn(...) as create_check_in builds it; the analysis columns stay NULL.
NewCheckIn(ci) ==
    [energy_level |-> ci.energy_level,
     collaboration_rating |-> ci.collaboration_rating,
     self_assessment |-> ci.self_assessment,
     sentiment_score |-> None, risk_contribution |-> None]

\* A second check-in of a fellow for a week violates uq_fellow_week: the
\* commit raises and nothing is stored.
CreateCheckIn(p, f, week, ci) ==
    /\ pc[p] = "idle"
    /\ IF f \notin Fellows
       THEN /\ result' = [result EXCEPT ![p] =
                            Response("check_in", 0, 404, "Fellow not found")]
            /\ UNCHANGED check_ins
       ELSE IF check_ins[f][week] # None
       THEN /\ result' = [result EXCEPT ![p] =
                            Response("check_in", 0, 500, "IntegrityError")]
            /\ UNCHANGED check_ins
       ELSE /\ check_ins' = [check_ins EXCEPT ![f][week] = Some(NewCheckIn(ci))]
            /\ result' = [result EXCEPT ![p] = Response("check_in", 0, 200, "")]
    /\ UNCHANGED <<users, warnings, warnings_count, now, pc, sess>>
    /\ UNCHANGED <<milestones, risk_assessments, current_risk_score, signals,
                   risk_score, risk_level, assessment>>

\* ------------------------------------------ POST /risk/assess/{fellow_id}
\* The ids of the stored assessments of fellow f for a week.
ExistingAssessments(f, week) ==
    {i \in DOMAIN risk_assessments :
        risk_assessments[i].fellow_id = f /\ risk_assessments[i].week = week}

\* RiskAssessment(...) as the handler builds it; assessed_at takes the
\* server's clock.
NewAssessment(f, week, data, t) ==
    [fellow_id |-> f, week |-> week, risk_level |-> data.risk_level,
     risk_score |-> data.risk_score, signals |-> data.signals,
     concerns |-> data.concerns,
     recommended_action |-> data.recommended_action, assessed_at |-> t]

\* Mutant: the update keeps the stored score.
UpdatedAssessment_StaleScore(row, data, t) ==
    [row EXCEPT !.risk_level = data.risk_level,
                !.signals = data.signals,
                !.concerns = data.concerns,
                !.recommended_action = data.recommended_action,
                !.assessed_at = t]

\* The stored row after "Update existing".
UpdatedAssessment(row, data, t) ==
    [row EXCEPT !.risk_level = data.risk_level,
                !.risk_score = data.risk_score,
                !.signals = data.signals,
                !.concerns = data.concerns,
                !.recommended_action = data.recommended_action,
                !.assessed_at = t]

\* The whole handler: the assessment is computed, the row of the week is
\* updated or added, the fellow's current_risk_score is set, and one commit
\* makes both visible.  The handler returns the row.
AssessRisk(p, f, week) ==
    /\ pc[p] = "idle"
    /\ IF f \notin Fellows
       THEN /\ result' = [result EXCEPT ![p] =
                            Response("assess", 0, 404, "Fellow not found")]
            /\ UNCHANGED <<now, risk_assessments, current_risk_score, assessment>>
       ELSE /\ now < MaxTime
            /\ now' = now + 1
            /\ LET assessment_data == AssessFellowRisk(f, week)
                   existing == ExistingAssessments(f, week)
               IN /\ IF existing # {}
                     THEN LET i == CHOOSE i \in existing : TRUE
                          IN risk_assessments' =
                                 [risk_assessments EXCEPT ![i] =
                                     UpdatedAssessment(@, assessment_data, now + 1)]
                     ELSE risk_assessments' =
                              Append(risk_assessments,
                                     NewAssessment(f, week, assessment_data, now + 1))
                  /\ current_risk_score' =
                         [current_risk_score EXCEPT ![f] =
                             Some(assessment_data.risk_score)]
                  /\ assessment' = Some(assessment_data)
            /\ result' = [result EXCEPT ![p] = Response("assess", 0, 200, "")]
    /\ UNCHANGED <<users, warnings, warnings_count, pc, sess>>
    /\ UNCHANGED <<check_ins, milestones, signals, risk_score, risk_level>>

\* The same handler, await by await, for calls that run side by side.
\* What the handler holds once the service returned: the dict of the
\* assessment, no row of the week looked up yet.
AssessSession(f, week, data) ==
    [fellow_id |-> f, week |-> week, data |-> data,
     existing |-> None, assessed_at |-> None]

\* Select the fellow and run the service; the handler then waits on the
\* select of the week's row.
AssessRisk_Service(p, f, week) ==
    /\ pc[p] = "idle"
    /\ IF f \notin Fellows
       THEN /\ result' = [result EXCEPT ![p] =
                            Response("assess", 0, 404, "Fellow not found")]
            /\ UNCHANGED <<pc, sess>>
       ELSE /\ sess' = [sess EXCEPT ![p] =
                          [NoSession EXCEPT !.row =
                              Some(AssessSession(f, week,
                                                 AssessFellowRisk(f, week)))]]
            /\ pc' = [pc EXCEPT ![p] = "assess_existing"]
            /\ UNCHANGED result
    /\ UNCHANGED <<users, warnings, warnings_count, now>>
    /\ UNCHANGED riskVars

\* Select the row of the week; if there is one, its columns are assigned
\* in the session, assessed_at from the clock.
AssessRisk_Existing(p) ==
    /\ pc[p] = "assess_existing"
    /\ LET s == sess[p].row[1]
           existing == ExistingAssessments(s.fellow_id, s.week)
       IN IF existing # {}
          THEN /\ now < MaxTime
               /\ now' = now + 1
               /\ sess' = [sess EXCEPT ![p].row =
                             Some([s EXCEPT
                                     !.existing = Some(CHOOSE i \in existing : TRUE),
                                     !.assessed_at = Some(now + 1)])]
          ELSE UNCHANGED <<now, sess>>
    /\ pc' = [pc EXCEPT ![p] = "assess_commit"]
    /\ UNCHANGED <<users, warnings, warnings_count, result>>
    /\ UNCHANGED riskVars

\* Mutant: the table without its unique constraint.
UniqueViolation_NoConstraint(table, f, week) == FALSE

\* UniqueConstraint('fellow_id', 'week'): an INSERT of a second row for
\* the pair is refused.
UniqueViolation(table, f, week) ==
    \E i \in DOMAIN table : table[i].fellow_id = f /\ table[i].week = week

\* await db.commit(): the fellow's score and the row are flushed and
\* committed together.  A refused INSERT raises IntegrityError, the
\* transaction is rolled back and the handler ends with nothing written.
AssessRisk_Commit(p) ==
    /\ pc[p] = "assess_commit"
    /\ LET s == sess[p].row[1]
       IN IF s.existing # None
          THEN /\ risk_assessments' =
                     [risk_assessments EXCEPT ![s.existing[1]] =
                         UpdatedAssessment(@, s.data, s.assessed_at[1])]
               /\ current_risk_score' =
                     [current_risk_score EXCEPT ![s.fellow_id] =
                         Some(s.data.risk_score)]
               /\ assessment' = Some(s.data)
               /\ result' = [result EXCEPT ![p] = Response("assess", 0, 200, "")]
               /\ UNCHANGED now
          ELSE IF UniqueViolation(risk_assessments, s.fellow_id, s.week)
          THEN /\ result' = [result EXCEPT ![p] =
                               Response("assess", 0, 500, "IntegrityError")]
               /\ UNCHANGED <<now, risk_assessments, current_risk_score,
                              assessment>>
          ELSE /\ now < MaxTime
               /\ now' = now + 1
               /\ risk_assessments' =
                     Append(risk_assessments,
                            NewAssessment(s.fellow_id, s.week, s.data, now + 1))
               /\ current_risk_score' =
                     [current_risk_score EXCEPT ![s.fellow_id] =
                         Some(s.data.risk_score)]
               /\ assessment' = Some(s.data)
               /\ result' = [result EXCEPT ![p] = Response("assess", 0, 200, "")]
    /\ pc' = [pc EXCEPT ![p] = "idle"]
    /\ sess' = [sess EXCEPT ![p] = NoSession]
    /\ UNCHANGED <<users, warnings, warnings_count>>
    /\ UNCHANGED <<check_ins, milestones, signals, risk_score, risk_level>>

\* ------------------------------------------- PATCH /fellows/{fellow_id}
\* The bodies of the call, as far as they touch the columns kept here: a
\* field is None when the body leaves it unset (exclude_unset drops it),
\* and holds the column's new value otherwise.
FellowUpdates ==
    [warnings_count : {None} \cup {Some(n) : n \in 0..MaxWarnings},
     current_risk_score : {None, Some(Some(ScoreOne \div 2))}]

\* `setattr(fellow, field, value)` for one column: the value of the body
\* if the body sets the field, the stored one otherwise.
SetAttr(stored, field) == IF field = None THEN stored ELSE field[1]

UpdateFellow(p, f, updates) ==
    /\ pc[p] = "idle"
    /\ IF f \notin Fellows
       THEN /\ result' = [result EXCEPT ![p] =
                            Response("update_fellow", 0, 404, "Fellow not found")]
            /\ UNCHANGED <<warnings_count, current_risk_score>>
       ELSE /\ warnings_count' =
                 [warnings_count EXCEPT ![f] = SetAttr(@, updates.warnings_count)]
            /\ current_risk_score' =
                 [current_risk_score EXCEPT ![f] =
                    SetAttr(@, updates.current_risk_score)]
            /\ result' = [result EXCEPT ![p] =
                            Response("update_fellow", 0, 200, "")]
    /\ UNCHANGED <<users, warnings, now, pc, sess>>
    /\ UNCHANGED <<check_ins, milestones, risk_assessments, signals,
                   risk_score, risk_level, assessment>>

\* ---------------------------------------------------- POST /auth/signup
Emails == {"a@example.org", "b@example.org", "c@example.org"}
Roles == {"admin", "readonly"}                   \* two of UserRole

\* Mutant: signup without its look-up of the email.
EmailRegistered_Unchecked(table, email) == FALSE

\* `select(User).where(User.email == request.email)` returned a row.
EmailRegistered(table, email) ==
    \E i \in DOMAIN table : table[i].email = email

\* User(...) as signup builds it, as far as its columns are kept here.
NewUser(email, role) == [email |-> email, role |-> role, is_active |-> TRUE]

\* Select the user with the email and reject the call if there is one;
\* otherwise add the new user to the session.  The handler then waits on
\* its commit.
Signup_Select(p, email, role) ==
    /\ pc[p] = "idle"
    /\ IF EmailRegistered(users, email)
       THEN /\ result' = [result EXCEPT ![p] =
                            Response("signup", 0, 400, "Email already registered")]
            /\ UNCHANGED <<pc, sess>>
       ELSE /\ sess' = [sess EXCEPT ![p] =
                          [NoSession EXCEPT !.row = Some(NewUser(email, role))]]
            /\ pc' = [pc EXCEPT ![p] = "signup_commit"]
            /\ UNCHANGED result
    /\ UNCHANGED <<users, warnings, warnings_count, now>>
    /\ UNCHANGED riskVars

\* await db.commit(): the INSERT is flushed; the unique index on
\* users.email refuses it if a user with the email was committed in
\* between, and the IntegrityError leaves the handler uncaught.
Signup_Commit(p) ==
    /\ pc[p] = "signup_commit"
    /\ LET user == sess[p].row[1]
       IN IF \E i \in DOMAIN users : users[i].email = user.email
          THEN /\ result' = [result EXCEPT ![p] =
                               Response("signup", 0, 500, "IntegrityError")]
               /\ UNCHANGED users
          ELSE /\ users' = Append(users, user)
               /\ result' = [result EXCEPT ![p] = Response("signup", 0, 201, "")]
    /\ pc' = [pc EXCEPT ![p] = "idle"]
    /\ sess' = [sess EXCEPT ![p] = NoSession]
    /\ UNCHANGED <<warnings, warnings_count, now>>
    /\ UNCHANGED riskVars

\* ------------------------------------------------------- specifications
\* The issue handler of one client, step by step.
IssueWarning(p) ==
    \/ \E w \in WarningIds : IssueWarning_Select(p, w)
    \/ IssueWarning_Fellow(p)
    \/ IssueWarning_Commit(p)

\* The assess handler of one client, step by step.
AssessRiskSteps(p) ==
    \/ \E f \in {"f1", "f0"} : AssessRisk_Service(p, f, MaxWeek)
    \/ AssessRisk_Existing(p)
    \/ AssessRisk_Commit(p)

\* One client whose calls run one after the other; first-level warnings of
\* one fellow, with and without a draft message and an override.
Next ==
    \/ \E f \in {"f1", "f0"}, dm \in DraftInputs :
           CreateWarning(MainProc, f, "first", dm)
    \/ \E w \in WarningIds, fm \in FinalInputs : UpdateWarning(MainProc, w, fm)
    \/ IssueWarning(MainProc)
    \/ \E w \in WarningIds : AcknowledgeWarning(MainProc, w)

Spec == Init /\ [][Next]_vars

\* One client that creates, issues and acknowledges warnings and patches
\* the fellow between its calls.
NextFellow ==
    \/ \E f \in {"f1", "f0"} : CreateWarning(MainProc, f, "first", Some("draft"))
    \/ \E w \in WarningIds : UpdateWarning(MainProc, w, "override")
    \/ IssueWarning(MainProc)
    \/ \E w \in WarningIds : AcknowledgeWarning(MainProc, w)
    \/ \E f \in {"f1", "f0"}, updates \in FellowUpdates :
           UpdateFellow(MainProc, f, updates)

SpecFellow == Init /\ [][NextFellow]_vars

\* Several clients signing up: the handlers interleave at their awaits.
NextSignup ==
    \/ \E p \in Procs, email \in Emails, role \in Roles :
           Signup_Select(p, email, role)
    \/ \E p \in Procs : Signup_Commit(p)

SpecSignup == Init /\ [][NextSignup]_vars

\* One client, warnings of both levels, each created with a draft message.
NextLevels ==
    \/ \E f \in FellowIds, lvl \in Levels :
           CreateWarning(MainProc, f, lvl, Some("draft"))
    \/ IssueWarning(MainProc)
    \/ \E w \in WarningIds : AcknowledgeWarning(MainProc, w)

SpecLevels == Init /\ [][NextLevels]_vars

\* Several clients issuing: the handlers interleave at their awaits.
NextConcurrent ==
    \/ \E f \in Fellows : CreateWarning(MainProc, f, "first", Some("draft"))
    \/ \E p \in Procs : IssueWarning(p)

SpecConcurrent == Init /\ [][NextConcurrent]_vars

\* One client drafting, creating and issuing warnings of both levels.
NextDraft ==
    \/ \E f \in {"f1", "f0"}, lvl \in Levels, reply \in LLMReplies :
           DraftWarning(MainProc, f, lvl, reply)
    \/ \E lvl \in Levels : CreateWarning(MainProc, "f1", lvl, Some("draft"))
    \/ IssueWarning(MainProc)

SpecDraft == Init /\ [][NextDraft]_vars

\* One client submitting check-ins of one fellow, for any week, and
\* assessing its risk at the last two weeks.
AssessWeeks == {MaxWeek - 1, MaxWeek}

NextAssess ==
    \/ \E f \in {"f1", "f0"}, week \in Weeks, ci \in CheckInInputs :
           CreateCheckIn(MainProc, f, week, ci)
    \/ \E f \in {"f1", "f0"}, week \in AssessWeeks :
           AssessRisk(MainProc, f, week)

SpecAssess == Init /\ [][NextAssess]_vars

\* Several clients assessing the same fellow and week while its check-ins
\* come in: the handlers interleave at their awaits.
NextAssessConcurrent ==
    \/ \E week \in AssessWeeks, ci \in CheckInInputs :
           CreateCheckIn(MainProc, "f1", week, ci)
    \/ \E p \in Procs : AssessRiskSteps(p)

SpecAssessConcurrent == Init /\ [][NextAssessConcurrent]_vars

\* One client working on two fellows: a check-in and an assessment of the
\* last week for one, an assessment of the week before for the other, and
\* warnings of both created, issued and acknowledged.
NextFrame ==
    \/ \E ci \in CheckInInputs : CreateCheckIn(MainProc, "f1", MaxWeek, ci)
    \/ AssessRisk(MainProc, "f1", MaxWeek)
    \/ AssessRisk(MainProc, "f2", MaxWeek - 1)
    \/ \E f \in Fellows : CreateWarning(MainProc, f, "first", Some("draft"))
    \/ IssueWarning(MainProc)
    \/ \E w \in WarningIds : AcknowledgeWarning(MainProc, w)

SpecFrame == Init /\ [][NextFrame]_vars

\* One client warning a fellow and assessing its risk at the last week.
\* The fellow's first milestone is not scored, scored 0.00 or scored 4.00;
\* its check-ins, of the last three weeks, are those of a fellow who
\* struggles or leave the optional fields out.
BlankCheckIn ==
    [energy_level |-> None, collaboration_rating |-> None,
     self_assessment |-> None]

InitWarned ==
    /\ InitWarnings
    /\ check_ins = [f \in Fellows |-> [w \in Weeks |-> None]]
    /\ milestones \in {[f \in Fellows |-> <<m, None, None>>] :
                          m \in {None, Some(0), Some(400)}}
    /\ risk_assessments = <<>>
    /\ current_risk_score = [f \in Fellows |-> None]
    /\ signals = None
    /\ risk_score = None
    /\ risk_level = None
    /\ assessment = None

NextWarned ==
    \/ \E week \in (MaxWeek - 2)..MaxWeek,
           ci \in CheckInInputs \cup {BlankCheckIn} :
           CreateCheckIn(MainProc, "f1", week, ci)
    \/ AssessRisk(MainProc, "f1", MaxWeek)
    \/ CreateWarning(MainProc, "f1", "first", Some("draft"))
    \/ IssueWarning(MainProc)

SpecWarned == InitWarned /\ [][NextWarned]_vars

\* The scoring functions on every signals dict of SignalSets.
InitScore ==
    /\ InitWarnings
    /\ check_ins = [f \in Fellows |-> [w \in Weeks |-> None]]
    /\ milestones = [f \in Fellows |-> <<None, None, None>>]
    /\ risk_assessments = <<>>
    /\ current_risk_score = [f \in Fellows |-> None]
    /\ signals \in {Some(s) : s \in SignalSets}
    /\ risk_score = None
    /\ risk_level = None
    /\ assessment = None

NextScore == CalculateStep \/ DetermineStep \/ ConcludeStep

SpecScore == InitScore /\ [][NextScore]_vars

\* The scoring functions on the signals dicts around the thresholds.
InitThreshold ==
    /\ InitWarnings
    /\ check_ins = [f \in Fellows |-> [w \in Weeks |-> None]]
    /\ milestones = [f \in Fellows |-> <<None, None, None>>]
    /\ risk_assessments = <<>>
    /\ current_risk_score = [f \in Fellows |-> None]
    /\ signals \in {Some(s) : s \in ThresholdSignalSets}
    /\ risk_score = None
    /\ risk_level = None
    /\ assessment = None

NextThreshold == CalculateStep \/ DetermineStep \/ ConcludeStep

SpecThreshold == InitThreshold /\ [][NextThreshold]_vars

\* _determine_risk_level on every score from 0.0 to 1.0 in steps of 0.0001.
InitClassify ==
    /\ InitWarnings
    /\ check_ins = [f \in Fellows |-> [w \in Weeks |-> None]]
    /\ milestones = [f \in Fellows |-> <<None, None, None>>]
    /\ risk_assessments = <<>>
    /\ current_risk_score = [f \in Fellows |-> None]
    /\ signals = None
    /\ risk_score \in {Some(x) : x \in 0..ScoreOne}
    /\ risk_level = None
    /\ assessment = None

NextClassify == DetermineStep

SpecClassify == InitClassify /\ [][NextClassify]_vars

\* =============================================================== claims
Drafted(w) == warnings[w].issued_at = None
Issued(w) == warnings[w].issued_at # None

\* The Issued warnings of fellow f.
IssuedOf(f) == {w \in DOMAIN warnings : warnings[w].fellow_id = f /\ Issued(w)}

\* The last call of client p was an issue of w that succeeded.
IssueSucceeded(p, w) == result[p] = Response("issue", w, 200, "")

\* C1: when two issue calls run concurrently on the same Drafted warning,
\* exactly one succeeds (the other fails with "Warning already issued") and
\* the fellow's warnings_count rises by exactly 1: no warning has two
\* successful issue responses, and each fellow's count is the number of its
\* Issued warnings.
C1_ConcurrentIssueOnce ==
    /\ \A w \in DOMAIN warnings :
           Cardinality({p \in Procs : IssueSucceeded(p, w)}) <= 1
    /\ \A f \in Fellows : warnings_count[f] = Cardinality(IssuedOf(f))

\* C2: an issue call on a warning that is already Issued fails with
\* "Warning already issued" and changes neither the warnings table nor any
\* fellow's warnings_count; no session is opened on the row.
C2_ReissueRejected ==
    [][\A w \in WarningIds :
          (Exists(w) /\ Issued(w) /\ IssueWarning_Select(MainProc, w))
          => /\ result'[MainProc] = Response("issue", w, 400, "Warning already issued")
             /\ pc'[MainProc] = "idle"
             /\ warnings' = warnings
             /\ warnings_count' = warnings_count]_vars

\* C2 witness: the client's issue call was rejected as already issued.
C2_Witness ==
    /\ result[MainProc] = Response("issue", 0, 400, "Warning already issued")
    /\ \E w \in DOMAIN warnings : Issued(w)

\* C3: issued_at and the owning fellow's warnings_count change in the same
\* step: a step in which a warning turns Issued raises its fellow's count by
\* exactly 1, and a step that changes a fellow's count raises it by exactly
\* 1 and turns exactly one of that fellow's Drafted warnings Issued.
C3_IssueAtomicWithCount ==
    [][/\ \A w \in DOMAIN warnings :
             (Drafted(w) /\ warnings'[w].issued_at # None)
             => warnings_count'[warnings[w].fellow_id]
                  = warnings_count[warnings[w].fellow_id] + 1
       /\ \A f \in Fellows :
             warnings_count'[f] # warnings_count[f]
             => /\ warnings_count'[f] = warnings_count[f] + 1
                /\ Cardinality({w \in DOMAIN warnings :
                       /\ warnings[w].fellow_id = f
                       /\ Drafted(w)
                       /\ warnings'[w].issued_at # None}) = 1]_vars

\* C3 witness: an issue call succeeded and the fellow's count is 1.
C3_Witness ==
    \E w \in DOMAIN warnings :
        /\ IssueSucceeded(MainProc, w)
        /\ Issued(w)
        /\ warnings_count[warnings[w].fellow_id] = 1

\* C4: an issue call on a Drafted warning with no final message and no
\* draft message fails with "No message to send"; the stored row is still
\* Drafted (issued_at and issued_by unset), the table and every
\* warnings_count are unchanged and no session is left open.
C4_EmptyMessageRejected ==
    [][\A w \in WarningIds :
          (/\ Exists(w) /\ Drafted(w)
           /\ ~Truthy(warnings[w].final_message)
           /\ ~Truthy(warnings[w].draft_message)
           /\ IssueWarning_Select(MainProc, w))
          => /\ result'[MainProc] = Response("issue", w, 400, "No message to send")
             /\ pc'[MainProc] = "idle"
             /\ warnings'[w].issued_at = None
             /\ warnings'[w].issued_by = None
             /\ warnings' = warnings
             /\ warnings_count' = warnings_count]_vars

\* C4 witness: the call failed for want of a message, on a table that holds
\* a Drafted warning with neither message.
C4_Witness ==
    /\ result[MainProc] = Response("issue", 0, 400, "No message to send")
    /\ \E w \in DOMAIN warnings :
           /\ Drafted(w)
           /\ warnings[w].final_message = None
           /\ warnings[w].draft_message = None

\* C5: the step that turns a warning Issued leaves final_message equal to
\* the override stored by update when that is non-empty, and equal to
\* draft_message otherwise; the final_message of an Issued warning is never
\* None or "".
C5_FinalMessageChosen ==
    [][\A w \in DOMAIN warnings' :
          /\ (w \in DOMAIN warnings /\ Drafted(w) /\ warnings'[w].issued_at # None)
             => warnings'[w].final_message =
                  IF Truthy(warnings[w].final_message)
                  THEN warnings[w].final_message
                  ELSE warnings[w].draft_message
          /\ warnings'[w].issued_at # None => Truthy(warnings'[w].final_message)]_vars

\* C5 witness: one warning issued with its override, another with its
\* draft message after an empty override.
C5_Witness ==
    \E v, w \in DOMAIN warnings :
        /\ Issued(v) /\ Issued(w)
        /\ warnings[v].draft_message = Some("draft")
        /\ warnings[v].final_message = Some("override")
        /\ warnings[w].final_message = warnings[w].draft_message

\* C6: once a warning is Issued no step changes its final_message.
C6_FinalMessageFrozen ==
    [][\A w \in DOMAIN warnings :
          Issued(w) => warnings'[w].final_message = warnings[w].final_message]_vars

\* C6 witness: an update of an Issued warning was rejected.
C6_Witness ==
    /\ result[MainProc] =
         Response("update", 0, 400, "Cannot update already issued warning")
    /\ \E w \in DOMAIN warnings : Issued(w) /\ Truthy(warnings[w].final_message)

\* C7: an acknowledge call on a Drafted warning fails with "Warning not yet
\* issued" and leaves the row unacknowledged with acknowledged_at unset; a
\* step acknowledges a warning only if the warning was Issued before it.
C7_AcknowledgeNeedsIssued ==
    [][\A w \in WarningIds :
          /\ (Exists(w) /\ Drafted(w) /\ AcknowledgeWarning(MainProc, w))
             => /\ result'[MainProc] =
                     Response("acknowledge", w, 400, "Warning not yet issued")
                /\ warnings'[w].acknowledged = FALSE
                /\ warnings'[w].acknowledged_at = None
                /\ warnings' = warnings
          /\ (/\ Exists(w)
              /\ result'[MainProc] =
                   Response("acknowledge", w, 200, "Warning acknowledged")
              /\ result'[MainProc] # result[MainProc])
             => Issued(w)]_vars

\* C7 witness: an acknowledge call was rejected on a table with a Drafted
\* warning, none acknowledged.
C7_Witness ==
    /\ result[MainProc] = Response("acknowledge", 0, 400, "Warning not yet issued")
    /\ \E w \in DOMAIN warnings : Drafted(w)
    /\ \A w \in DOMAIN warnings : ~warnings[w].acknowledged

\* C8: every warning has acknowledged_at set iff acknowledged is true,
\* acknowledged only if issued_at is set, and, while issued_at is unset,
\* acknowledged false and acknowledged_at unset.
C8_LifecycleInvariant ==
    \A w \in DOMAIN warnings :
        /\ (warnings[w].acknowledged_at # None) <=> warnings[w].acknowledged
        /\ warnings[w].acknowledged => Issued(w)
        /\ Drafted(w) => (~warnings[w].acknowledged
                          /\ warnings[w].acknowledged_at = None)

\* C8 witness: an acknowledged warning beside a Drafted one.
C8_Witness ==
    \E v, w \in DOMAIN warnings :
        /\ warnings[v].acknowledged /\ warnings[v].acknowledged_at # None
        /\ Drafted(w)

\* The Final-level warnings of fellow f in a warnings table.
FinalsOf(table, f) ==
    {w \in DOMAIN table : table[w].fellow_id = f /\ table[w].level = "final"}

\* C9: a Final-level warning exists only for a fellow that has a First-level
\* warning in the Issued state (creating one for another fellow is refused
\* and adds no row).
C9_FinalRequiresIssuedFirst ==
    \A w \in DOMAIN warnings :
        warnings[w].level = "final"
        => \E v \in DOMAIN warnings :
               /\ warnings[v].fellow_id = warnings[w].fellow_id
               /\ warnings[v].level = "first"
               /\ Issued(v)

\* C10 as claimed: each fellow has at most one Final-level warning.
C10_AtMostOneFinal ==
    \A f \in Fellows : Cardinality(FinalsOf(warnings, f)) <= 1

\* C10 as amended: the operations put no cap on Final-level warnings.  A
\* create call with level "final" for an existing fellow adds exactly one
\* Final-level warning of that fellow, whatever the fellow already has, and
\* a fellow's number of Final-level warnings changes in no other step.
C10_FinalsFollowCreates ==
    [][\A f \in Fellows :
          /\ CreateWarning(MainProc, f, "final", Some("draft"))
             => Cardinality(FinalsOf(warnings', f))
                  = Cardinality(FinalsOf(warnings, f)) + 1
          /\ Cardinality(FinalsOf(warnings', f)) # Cardinality(FinalsOf(warnings, f))
             => /\ CreateWarning(MainProc, f, "final", Some("draft"))
                /\ result'[MainProc] =
                     Response("create", Len(warnings) + 1, 200, "")]_vars

\* C10 witness: a fellow with two Final-level warnings.
C10_Witness ==
    \E f \in Fellows : Cardinality(FinalsOf(warnings, f)) = 2

\* The reply is one of a collaborator that failed: the call raised (error,
\* timeout), or the text is no JSON object, lacks a required field, or
\* carries a message shorter than the minimum.
CollaboratorFailed(reply) ==
    \/ reply.raised
    \/ ~reply.json
    \/ ~reply.complete
    \/ reply.message_len < MinMessageLen

\* C11: when the text-generation service fails, times out or returns an
\* invalid response, the draft call fails ("Warning drafting failed") and
\* the warnings table and every fellow's warnings_count are what they were
\* before the call.
C11_DraftFailureLeavesState ==
    [][\A f \in Fellows, lvl \in Levels, reply \in LLMReplies :
          (CollaboratorFailed(reply) /\ DraftWarning(MainProc, f, lvl, reply))
          => /\ result'[MainProc] =
                   Response("draft", 0, 500, "Warning drafting failed")
             /\ warnings' = warnings
             /\ warnings_count' = warnings_count]_vars

\* C11 witness: a draft call failed while warnings were stored and one was
\* issued.
C11_Witness ==
    /\ result[MainProc] = Response("draft", 0, 500, "Warning drafting failed")
    /\ Len(warnings) = MaxWarnings
    /\ warnings_count["f1"] > 0

\* The stored assessments of fellow f for a week, as the run that computed
\* `data` leaves them: one row, with the values of that run.
RecordHolds(rows, ids, data) ==
    /\ Cardinality(ids) = 1
    /\ \A i \in ids :
          /\ rows[i].risk_score = data.risk_score
          /\ rows[i].risk_level = data.risk_level
          /\ rows[i].signals = data.signals
          /\ rows[i].concerns = data.concerns
          /\ rows[i].recommended_action = data.recommended_action

\* C12: after any sequence of assess calls, repeated ones included, the
\* risk_assessments table holds at most one row per (fellow, week); an
\* assess call leaves exactly one row for its pair, with the score, level,
\* signals, concerns and recommended action it computed, and no other step
\* changes the rows of that pair.
C12_OneRecordPerWeek ==
    /\ [](\A i, j \in DOMAIN risk_assessments :
             (/\ risk_assessments[i].fellow_id = risk_assessments[j].fellow_id
              /\ risk_assessments[i].week = risk_assessments[j].week)
             => i = j)
    /\ [][\A f \in Fellows, week \in Weeks :
             IF AssessRisk(MainProc, f, week)
             THEN RecordHolds(risk_assessments',
                              ExistingAssessments(f, week)',
                              AssessFellowRisk(f, week))
             ELSE \A i \in ExistingAssessments(f, week) :
                      /\ i \in DOMAIN risk_assessments'
                      /\ risk_assessments'[i] = risk_assessments[i]]_vars

\* C12 witness: the one stored row was written by a repeated call, after
\* check-ins had come in.
C12_Witness ==
    /\ Len(risk_assessments) = 1
    /\ risk_assessments[1].assessed_at > 1
    /\ risk_assessments[1].signals.check_in_frequency > 0
    /\ result[MainProc] = Response("assess", 0, 200, "")

\* The last call of client p was an assess that succeeded.
AssessSucceeded(p) == result[p] = Response("assess", 0, 200, "")

\* The stored assessments the last reading of the clock was written to: in
\* a state an assess call has just left, the row of that call.
LastAssessed == {i \in DOMAIN risk_assessments :
                    risk_assessments[i].assessed_at = now}

\* C13: a second assess call for the same fellow and week, with the
\* check-ins, milestone scores, warnings_count and earlier-week assessments
\* unchanged, computes the same score, level, signals, concerns and
\* recommended action as the first: in the state an assess call has left,
\* its own row included, the service computes for that fellow and week
\* what the row holds.
C13_ReassessSameResult ==
    AssessSucceeded(MainProc)
    => \A i \in LastAssessed :
          RecordHolds(risk_assessments, {i},
                      AssessFellowRisk(risk_assessments[i].fellow_id,
                                       risk_assessments[i].week))

\* C13 witness: a week was assessed twice in a row while the week before it
\* has a stored assessment, which the second run read as its trend.
C13_Witness ==
    /\ AssessSucceeded(MainProc)
    /\ Len(risk_assessments) = 2
    /\ \E i, j \in DOMAIN risk_assessments :
          /\ risk_assessments[i].fellow_id = risk_assessments[j].fellow_id
          /\ risk_assessments[i].week = risk_assessments[j].week + 1
          /\ risk_assessments[j].assessed_at = 1
          /\ risk_assessments[i].assessed_at = 3
          /\ risk_assessments[i].signals.prev_risk_trend
                 = <<risk_assessments[j].risk_score>>

\* The risk level a reader finds on the fellow's row: the fellows table has
\* a current_risk_score column and no column for the level, and the assess
\* handler assigns the score only.
CurrentRiskLevel(f) == None

\* C14: an assess run writes the assessment row and the fellow's current
\* risk score and current risk level in one step: in the state the run has
\* committed, the fellow's current_risk_score is the row's risk_score and
\* the fellow's current risk level is the row's risk_level.
C14_FellowRiskFollowsRecord ==
    AssessSucceeded(MainProc)
    => \A i \in LastAssessed :
          /\ current_risk_score[risk_assessments[i].fellow_id]
                 = Some(risk_assessments[i].risk_score)
          /\ CurrentRiskLevel(risk_assessments[i].fellow_id)
                 = Some(risk_assessments[i].risk_level)

\* No data at all on the fellow: no check-in read, no analysed or rated
\* check-in, no milestone score, no warning, no earlier assessment.
NoSignalPresent(s) ==
    /\ s.check_in_frequency = 0
    /\ s.avg_sentiment = None
    /\ s.avg_check_in_risk = None
    /\ s.avg_energy = None
    /\ s.collaboration_issues = 0
    /\ s.below_expectations_rate = 0
    /\ s.milestone_avg = None
    /\ s.warnings_count = 0
    /\ s.prev_risk_trend = <<>>

C20_FrequencyWithinUnit ==
    \A i \in DOMAIN risk_assessments :
        /\ risk_assessments[i].signals.check_in_frequency >= 0
        /\ risk_assessments[i].signals.check_in_frequency <= SignalOne

\* Every bounded field of a signals dict lies in its interval: rates and the
\* check-in risk in [0, 1], the sentiment in [-1, 1], the energy in [1, 10],
\* the milestone average in [0, 4], the warnings count not negative.
InIntervals(s) ==
    /\ s.check_in_frequency >= 0 /\ s.check_in_frequency <= SignalOne
    /\ s.avg_check_in_risk # None
       => (s.avg_check_in_risk[1] >= 0 /\ s.avg_check_in_risk[1] <= SignalOne)
    /\ s.avg_sentiment # None
       => (s.avg_sentiment[1] >= - SignalOne /\ s.avg_sentiment[1] <= SignalOne)
    /\ s.avg_energy # None
       => (s.avg_energy[1] >= SignalOne /\ s.avg_energy[1] <= 10 * SignalOne)
    /\ s.milestone_avg # None
       => (s.milestone_avg[1] >= 0 /\ s.milestone_avg[1] <= 4 * SignalOne)
    /\ s.collaboration_issues >= 0 /\ s.collaboration_issues <= SignalOne
    /\ s.below_expectations_rate >= 0 /\ s.below_expectations_rate <= SignalOne
    /\ s.warnings_count >= 0

\* C15: for every signals dict with a signal applied (a positive weight
\* total) and every bounded field inside its interval, the score lies
\* between 0 and 1; it is the score of the signals dict alone, whatever
\* the rest of the state.
C15_ScoreWithinUnit ==
    (/\ risk_score # None
     /\ signals # None
     /\ WeightTotal(signals[1]) > 0
     /\ InIntervals(signals[1]))
    => /\ risk_score[1] >= 0
       /\ risk_score[1] <= ScoreOne

\* C15 witness: the score of a signals dict within its intervals was
\* computed with the trend amplification on, and the cap made it 1.0.
C15_Witness ==
    /\ risk_score = Some(ScoreOne)
    /\ signals # None
    /\ InIntervals(signals[1])
    /\ signals[1].risk_increasing

\* C17: of two signals dicts that differ only in avg_check_in_risk, present
\* in both, the one with the larger value has a score at least as high,
\* after amplification, cap and rounding: no larger value of
\* avg_check_in_risk gives a score below the one computed.
C17_MonotoneInCheckInRisk ==
    (/\ risk_score # None
     /\ signals # None
     /\ signals[1].avg_check_in_risk # None)
    => \A v \in CheckInRisks :
          v >= signals[1].avg_check_in_risk[1]
          => CalculateRiskScore([signals[1] EXCEPT !.avg_check_in_risk = Some(v)])
               >= risk_score[1]

\* C17 witness: a score was computed under amplification, and of two larger
\* values of avg_check_in_risk one gives the same score after rounding and
\* one a higher score.
C17_Witness ==
    /\ risk_score # None
    /\ signals # None
    /\ signals[1].risk_increasing
    /\ signals[1].avg_check_in_risk = Some(Decimal(50))
    /\ CalculateRiskScore([signals[1] EXCEPT
                             !.avg_check_in_risk = Some(Decimal(51))])
           = risk_score[1]
    /\ CalculateRiskScore([signals[1] EXCEPT
                             !.avg_check_in_risk = Some(SignalOne)])
           > risk_score[1]

\* The order of the levels, from on_track up to critical.
LevelRank(level) ==
    CASE level = "on_track" -> 0
      [] level = "monitor" -> 1
      [] level = "at_risk" -> 2
      [] level = "critical" -> 3

\* C18: every score from 0 to 1 gets exactly one level, the buckets closed
\* at their lower end: below 0.25 on_track, from 0.25 below 0.50 monitor,
\* from 0.50 below 0.75 at_risk, from 0.75 critical (0.2499 is on_track,
\* 0.25 monitor, 0.75 critical); and the level does not fall when the score
\* rises: the next lower score has no higher level.
C18_LevelBuckets ==
    (risk_score # None /\ risk_level # None)
    => LET score == risk_score[1]
           level == risk_level[1]
       IN /\ (100 * score < 25 * ScoreOne) => level = "on_track"
          /\ (100 * score >= 25 * ScoreOne /\ 100 * score < 50 * ScoreOne)
             => level = "monitor"
          /\ (100 * score >= 50 * ScoreOne /\ 100 * score < 75 * ScoreOne)
             => level = "at_risk"
          /\ (100 * score >= 75 * ScoreOne) => level = "critical"
          /\ (10000 * score = 2499 * ScoreOne) => level = "on_track"
          /\ score > 0
             => LevelRank(DetermineRiskLevel(score - 1)) <= LevelRank(level)

\* C18 witness: the score 0.25 was classified, as monitor, above the level
\* of 0.2499.
C18_Witness ==
    /\ risk_score # None
    /\ 100 * risk_score[1] = 25 * ScoreOne
    /\ risk_level = Some("monitor")
    /\ DetermineRiskLevel(risk_score[1] - 1) = "on_track"

\* The recommendation for a level and a number of warnings.
ActionFor(level, count) ==
    CASE level = "critical" -> "immediate_intervention"
      [] level = "at_risk" ->
             IF count >= 1 THEN "final_warning" ELSE "issue_warning"
      [] level = "monitor" -> "schedule_1_on_1"
      [] level = "on_track" -> "continue_monitoring"

\* C19: the recommended action is a function of the level and the warnings
\* count alone: immediate_intervention for critical, final_warning for
\* at_risk with one warning or more and issue_warning with none,
\* schedule_1_on_1 for monitor, continue_monitoring for on_track; and an
\* assess call only recommends: it leaves the warnings table and every
\* fellow's warnings_count as they were.
C19_ActionByLevelAndCount ==
    /\ [](assessment # None
          => assessment[1].recommended_action
               = ActionFor(assessment[1].risk_level,
                           assessment[1].signals.warnings_count))
    /\ [][AssessRisk(MainProc, "f1", MaxWeek)
          => /\ warnings' = warnings
             /\ warnings_count' = warnings_count]_vars

\* C19 witness: an assess call recommended a final warning to a fellow at
\* risk with one issued warning, while a drafted warning was stored too.
C19_Witness ==
    /\ AssessSucceeded(MainProc)
    /\ assessment # None
    /\ assessment[1].risk_level = "at_risk"
    /\ assessment[1].recommended_action = "final_warning"
    /\ warnings_count["f1"] = 1
    /\ Len(warnings) = 2
    /\ \E w \in DOMAIN warnings : Drafted(w)

\* C29: a warning's lifecycle only moves forward: no step changes or clears
\* an issued_at that is set, no step sets acknowledged back to false, and an
\* acknowledge call on an acknowledged warning is accepted, keeps
\* acknowledged true and sets acknowledged_at to the time of the call.
C29_LifecycleForward ==
    [][\A w \in DOMAIN warnings :
          /\ Issued(w) => warnings'[w].issued_at = warnings[w].issued_at
          /\ warnings[w].acknowledged => warnings'[w].acknowledged
          /\ (warnings[w].acknowledged /\ AcknowledgeWarning(MainProc, w))
             => /\ result'[MainProc] =
                     Response("acknowledge", w, 200, "Warning acknowledged")
                /\ warnings'[w] =
                     [warnings[w] EXCEPT !.acknowledged_at = Some(now')]]_vars

\* C28: each fellow's warnings_count is the number of its warnings with
\* issued_at set, after any sequence of calls from a count of 0 and no
\* warning; and a step that changes a fellow's count issues one of its
\* warnings (no create, update or acknowledge call and no failed call
\* changes the count).
C28_CountIsIssuedWarnings ==
    /\ [](\A f \in Fellows : warnings_count[f] = Cardinality(IssuedOf(f)))
    /\ [][\A f \in Fellows :
             warnings_count'[f] # warnings_count[f]
             => \E w \in DOMAIN warnings :
                    /\ warnings[w].fellow_id = f
                    /\ Drafted(w)
                    /\ warnings'[w].issued_at # None]_vars

\* C26: for the troubled fellow's signals (check-in rate 0.33, check-in
\* risk 0.6, sentiment -0.4, energy 3, milestone average 2.0, collaboration
\* issues 0.4, below expectations 0.2, one warning, no trend) the
\* assessment has level at_risk, its concerns include low_morale,
\* low_energy, collaboration, performance and warnings, and the recommended
\* action is final_warning.
C26_TroubledFellowAssessed ==
    (signals = Some(TroubledSignals) /\ assessment # None)
    => /\ assessment[1].risk_level = "at_risk"
       /\ {"low_morale", "low_energy", "collaboration", "performance",
           "warnings"} \subseteq assessment[1].concerns
       /\ assessment[1].recommended_action = "final_warning"

\* C26 witness: the troubled fellow's signals were assessed; the concerns
\* found are the five named and the check-in compliance.
C26_Witness ==
    /\ signals = Some(TroubledSignals)
    /\ assessment # None
    /\ assessment[1].signals = TroubledSignals
    /\ assessment[1].concerns =
         {"check_in_compliance", "low_morale", "low_energy", "collaboration",
          "performance", "warnings"}

\* C27 as stated: the score of the troubled fellow's signals is about 0.49
\* (within 0.01 of it).
C27_ScoreNearPoint49 ==
    (signals = Some(TroubledSignals) /\ risk_score # None)
    => /\ risk_score[1] >= 48 * (ScoreOne \div 100)
       /\ risk_score[1] <= 50 * (ScoreOne \div 100)

\* C27, amended: for the troubled fellow's signals all eight weights are
\* applied, there is no amplification, and the score is 0.53.
C27_ScoreIsPoint53 ==
    (signals = Some(TroubledSignals) /\ risk_score # None)
    => /\ WeightTotal(signals[1]) = 100
       /\ ~signals[1].risk_increasing
       /\ risk_score[1] = 53 * (ScoreOne \div 100)

\* C27 witness: the score of the troubled fellow's signals was computed and
\* classified at_risk.
C27_Witness ==
    /\ signals = Some(TroubledSignals)
    /\ risk_score = Some(53 * (ScoreOne \div 100))
    /\ risk_level = Some("at_risk")

\* The signals of the weighting scheme, each with its presence, its risk
\* in signal units and its weight in hundredths.
Contributions(s) ==
    <<[present |-> TRUE,
       risk |-> IF 100 * s.check_in_frequency < 33 * SignalOne
                THEN (8 * SignalOne) \div 10
                ELSE IF 100 * s.check_in_frequency < 67 * SignalOne
                THEN (4 * SignalOne) \div 10 ELSE 0,
       weight |-> 15],
      [present |-> s.avg_check_in_risk # None,
       risk |-> IF s.avg_check_in_risk # None
                THEN s.avg_check_in_risk[1] ELSE 0,
       weight |-> 25],
      [present |-> s.avg_sentiment # None,
       risk |-> IF s.avg_sentiment # None
                THEN SignalOne - (s.avg_sentiment[1] + SignalOne) \div 2 ELSE 0,
       weight |-> 15],
      [present |-> s.avg_energy # None,
       risk |-> IF s.avg_energy # None
                THEN SignalOne - s.avg_energy[1] \div 10 ELSE 0,
       weight |-> 10],
      [present |-> s.milestone_avg # None,
       risk |-> IF s.milestone_avg # None
                THEN SignalOne - s.milestone_avg[1] \div 4 ELSE 0,
       weight |-> 20],
      [present |-> TRUE, risk |-> s.collaboration_issues, weight |-> 5],
      [present |-> TRUE, risk |-> s.below_expectations_rate, weight |-> 5],
      [present |-> TRUE,
       risk |-> IF s.warnings_count >= 3 THEN SignalOne
                ELSE (s.warnings_count * SignalOne) \div 3,
       weight |-> 5]>>

\* The contributions of the present signals, summed.
RECURSIVE AppliedRisk(_)
AppliedRisk(cs) ==
    IF cs = <<>> THEN 0
    ELSE (IF Head(cs).present THEN Head(cs).risk * Head(cs).weight ELSE 0)
         + AppliedRisk(Tail(cs))

\* The weights of the present signals, summed.
RECURSIVE AppliedWeight(_)
AppliedWeight(cs) ==
    IF cs = <<>> THEN 0
    ELSE (IF Head(cs).present THEN Head(cs).weight ELSE 0)
         + AppliedWeight(Tail(cs))

\* The score before amplification and rounding, as a fraction.
RawScore(s) ==
    <<AppliedRisk(Contributions(s)),
      AppliedWeight(Contributions(s)) * SignalOne>>

\* The optional signals of a signals dict.
OptionalSignals ==
    {"avg_check_in_risk", "avg_sentiment", "avg_energy", "milestone_avg"}

\* C23: without amplification the score is the sum of the contributions
\* of the present signals divided by the sum of the weights of exactly
\* those signals, rounded to two decimals: an optional signal that is
\* absent adds nothing to the sum and nothing to the weights.
C23_ScoreOverPresentSignals ==
    (risk_score # None /\ signals # None /\ ~signals[1].risk_increasing)
    => /\ risk_score[1] = Round2(RawScore(signals[1]))
       /\ WeightTotal(signals[1])
            = 30 + 25 * (IF signals[1].avg_check_in_risk # None THEN 1 ELSE 0)
                 + 15 * (IF signals[1].avg_sentiment # None THEN 1 ELSE 0)
                 + 10 * (IF signals[1].avg_energy # None THEN 1 ELSE 0)
                 + 20 * (IF signals[1].milestone_avg # None THEN 1 ELSE 0)

\* C23 witness: a score was computed with every optional signal absent,
\* and each optional signal, were it present with the value 0, would give
\* another score.
C23_Witness ==
    /\ risk_score # None
    /\ signals # None
    /\ ~signals[1].risk_increasing
    /\ \A k \in OptionalSignals : signals[1][k] = None
    /\ \A k \in OptionalSignals :
           CalculateRiskScore([signals[1] EXCEPT ![k] = Some(0)]) # risk_score[1]

\* A list of previous scores, latest first, rises: it has two entries or
\* more, and the first is above 1.1 times the mean of the others.
TrendRises(trend) ==
    /\ Len(trend) >= 2
    /\ 10 * Head(trend) * (Len(trend) - 1) > 11 * SumSeq(Tail(trend))

\* C25: the concerns of an assessment hold a kind exactly when its rule
\* triggers on the signals: check_in_compliance iff the check-in rate is
\* below 0.67, low_morale iff the sentiment is present and below -0.3,
\* low_energy iff the energy is present and below 4, collaboration iff the
\* collaboration issues are above 0.3, performance iff the milestone
\* average is present and below 2.5, warnings iff warnings_count is above
\* 0, trend iff the previous scores rise; an absent signal triggers nothing.
C25_ConcernsFollowRules ==
    assessment # None
    => LET s == assessment[1].signals
           concerns == assessment[1].concerns
       IN /\ "check_in_compliance" \in concerns
               <=> 100 * s.check_in_frequency < 67 * SignalOne
          /\ "low_morale" \in concerns
               <=> (s.avg_sentiment # None
                    /\ 10 * s.avg_sentiment[1] < - 3 * SignalOne)
          /\ "low_energy" \in concerns
               <=> (s.avg_energy # None /\ s.avg_energy[1] < 4 * SignalOne)
          /\ "collaboration" \in concerns
               <=> 10 * s.collaboration_issues > 3 * SignalOne
          /\ "performance" \in concerns
               <=> (s.milestone_avg # None
                    /\ 10 * s.milestone_avg[1] < 25 * SignalOne)
          /\ "warnings" \in concerns <=> s.warnings_count > 0
          /\ "trend" \in concerns <=> TrendRises(s.prev_risk_trend)
          /\ concerns \subseteq
               {"check_in_compliance", "low_morale", "low_energy",
                "collaboration", "performance", "warnings", "trend"}

\* C25 witness: no concern was found for signals that lie exactly on the
\* thresholds, with previous scores of which the latest is 1.1 times the
\* other.
C25_Witness ==
    /\ assessment # None
    /\ assessment[1].concerns = {}
    /\ assessment[1].signals.check_in_frequency = Decimal(67)
    /\ assessment[1].signals.avg_sentiment = Some(- Decimal(30))
    /\ assessment[1].signals.avg_energy = Some(4 * SignalOne)
    /\ assessment[1].signals.collaboration_issues = Decimal(30)
    /\ assessment[1].signals.milestone_avg = Some(Decimal(250))
    /\ Len(assessment[1].signals.prev_risk_trend) = 2

\* score * 1.2 capped at 1.0, on a fraction.
TimesCapped(raw) ==
    IF raw[1] * 12 > raw[2] * 10 THEN <<1, 1>> ELSE <<raw[1] * 12, raw[2] * 10>>

\* C24: the score is amplified exactly when the previous scores rise (two
\* entries or more, the first above 1.1 times the mean of the others): the
\* normalized score is then multiplied by 1.2 and capped at 1.0 before it
\* is rounded, and otherwise only rounded.  For the previous scores
\* 0.5, 0.3, 0.3 and a normalized score of 0.5 the result is 0.6.
C24_AmplifiedWhenRising ==
    (risk_score # None /\ signals # None)
    => LET s == signals[1]
           raw == RawScore(s)
           rises == TrendRises(s.prev_risk_trend)
       IN /\ s.risk_increasing <=> rises
          /\ risk_score[1] = Round2(IF rises THEN TimesCapped(raw) ELSE raw)
          /\ (/\ s.prev_risk_trend =
                   <<50 * (ScoreOne \div 100), 30 * (ScoreOne \div 100),
                     30 * (ScoreOne \div 100)>>
              /\ 2 * raw[1] = raw[2])
             => risk_score[1] = 60 * (ScoreOne \div 100)

\* C24 witness: a normalized score of 0.5 was amplified to 0.6 on the
\* previous scores 0.5, 0.3, 0.3.
C24_Witness ==
    /\ risk_score = Some(60 * (ScoreOne \div 100))
    /\ signals # None
    /\ signals[1].prev_risk_trend =
         <<50 * (ScoreOne \div 100), 30 * (ScoreOne \div 100),
           30 * (ScoreOne \div 100)>>
    /\ 2 * RawScore(signals[1])[1] = RawScore(signals[1])[2]
    /\ signals[1].risk_increasing

\* C22: a signup call with an email that a user has already is rejected
\* with 400 "Email already registered" and adds no user; and no two users
\* have the same email, whatever the calls.
C22_DuplicateEmailRejected ==
    /\ [](\A i, j \in DOMAIN users :
              users[i].email = users[j].email => i = j)
    /\ [][\A p \in Procs, email \in Emails, role \in Roles :
             (/\ \E i \in DOMAIN users : users[i].email = email
              /\ Signup_Select(p, email, role))
             => /\ result'[p] =
                     Response("signup", 0, 400, "Email already registered")
                /\ pc'[p] = "idle"
                /\ sess'[p] = NoSession
                /\ users' = users]_vars

\* C22 witness: a signup was rejected for its email while the users of
\* the other emails signed up.
C22_Witness ==
    /\ \E p \in Procs :
           result[p] = Response("signup", 0, 400, "Email already registered")
    /\ Len(users) = Cardinality(Emails)
    /\ \A p \in Procs : pc[p] = "idle"

\* Handler p is about to commit an INSERT for a pair of fellow and week
\* that it read as having no row, while another call committed one.
LosesInsert(p) ==
    /\ pc[p] = "assess_commit"
    /\ sess[p].row[1].existing = None
    /\ ExistingAssessments(sess[p].row[1].fellow_id, sess[p].row[1].week) # {}

\* C30: of two assess calls for the same fellow and week that both read no
\* row of the week, at most one INSERT is committed: no pair of fellow and
\* week ever has two rows, and the commit of the call that comes second
\* fails and leaves the risk_assessments table and every fellow's
\* current_risk_score as they were.
C30_ConcurrentAssessOneRecord ==
    /\ [](\A f \in Fellows, week \in Weeks :
              Cardinality(ExistingAssessments(f, week)) <= 1)
    /\ [][\A p \in Procs :
             (LosesInsert(p) /\ AssessRisk_Commit(p))
             => /\ result'[p] = Response("assess", 0, 500, "IntegrityError")
                /\ risk_assessments' = risk_assessments
                /\ current_risk_score' = current_risk_score]_vars

\* C30 witness: both calls ended, one with the row committed and one
\* refused; the pair has one row, which holds the score the fellow has,
\* while a check-in that came in after the row was computed makes the
\* score of the week another one.
C30_Witness ==
    /\ \A p \in Procs : pc[p] = "idle"
    /\ \E p, q \in Procs :
           /\ result[p] = Response("assess", 0, 200, "")
           /\ result[q] = Response("assess", 0, 500, "IntegrityError")
    /\ Len(risk_assessments) = 1
    /\ Cardinality(ExistingAssessments("f1", MaxWeek)) = 1
    /\ current_risk_score["f1"] = Some(risk_assessments[1].risk_score)
    /\ AssessFellowRisk("f1", MaxWeek).risk_score # risk_assessments[1].risk_score

\* What the tables hold of fellow f: its check-ins, its assessment rows,
\* its warnings by id, its current_risk_score and its warnings_count.
FellowState(f) ==
    [check_ins |-> check_ins[f],
     records |-> {risk_assessments[i] : i \in ExistingAssessments(f, MaxWeek)
                                            \cup ExistingAssessments(f, MaxWeek - 1)},
     warnings |-> {<<w, warnings[w]>> :
                     w \in {v \in DOMAIN warnings : warnings[v].fellow_id = f}},
     current_risk_score |-> current_risk_score[f],
     warnings_count |-> warnings_count[f]]

\* What the assessment of fellow f for a week reads from the tables: the
\* recent check-ins, the milestone scores, the warnings count and the
\* scores of the recent assessments.
AssessmentReads(f, week) ==
    <<GetRecentCheckIns(f, week, 3), MilestoneScores(f), warnings_count[f],
      GetRecentRiskAssessments(f, week, 2)>>

\* A step of an assess call on fellow f (the fellows of the table are
\* the ones an assess call does not answer with 404).
AssessOf(f) ==
    /\ result'[MainProc] = Response("assess", 0, 200, "")
    /\ \E week \in AssessWeeks : AssessRisk(MainProc, f, week)

\* A step of an assess call or of a create, issue or acknowledge call on
\* a warning of fellow f.
OperationOn(f) ==
    \/ AssessOf(f)
    \/ CreateWarning(MainProc, f, "first", Some("draft"))
    \/ \E w \in DOMAIN warnings :
           /\ warnings[w].fellow_id = f
           /\ IssueWarning_Select(MainProc, w) \/ AcknowledgeWarning(MainProc, w)
    \/ /\ pc[MainProc] # "idle"
       /\ sess[MainProc].row.fellow_id = f
       /\ IssueWarning_Fellow(MainProc) \/ IssueWarning_Commit(MainProc)

\* C21: an assess call on a fellow, and a create, issue or acknowledge call
\* on one of its warnings, leaves what the tables hold of every other
\* fellow as it was; and an assess call leaves everything the assessment
\* of another fellow reads as it was, so that the assessments of two
\* fellows give the same rows and scores in either order.
C21_OtherFellowUntouched ==
    [][\A a \in Fellows : \A b \in Fellows \ {a} :
          /\ OperationOn(a) => FellowState(b)' = FellowState(b)
          /\ AssessOf(a)
             => \A week \in AssessWeeks :
                    AssessmentReads(b, week)' = AssessmentReads(b, week)]_vars

\* C21 witness: one fellow was assessed for the week before, then the
\* other for the last week, with no previous score read; the second has an
\* issued warning and a count of 1, the first a drafted warning and a count
\* of 0.
C21_Witness ==
    /\ \E i, j \in DOMAIN risk_assessments :
           /\ risk_assessments[i].fellow_id = "f2"
           /\ risk_assessments[i].week = MaxWeek - 1
           /\ risk_assessments[j].fellow_id = "f1"
           /\ risk_assessments[j].week = MaxWeek
           /\ risk_assessments[i].assessed_at < risk_assessments[j].assessed_at
           /\ risk_assessments[j].signals.prev_risk_trend = <<>>
    /\ \E v, w \in DOMAIN warnings :
           /\ warnings[v].fellow_id = "f1" /\ Issued(v)
           /\ warnings[w].fellow_id = "f2" /\ Drafted(w)
    /\ warnings_count["f1"] = 1
    /\ warnings_count["f2"] = 0
    /\ current_risk_score["f1"] # None
    /\ current_risk_score["f2"] # None

====
